---- MODULE Spec2Model ----
(***************************************************************************)
(* Model of psdemiurge.py: the batch driver (run, render_pngs), the        *)
(* compositor (combine_layers) and the bounding-box reducer                *)
(* (get_bounding_size).                                                    *)
(*                                                                         *)
(* A layer is a record [idx, name, bbox, alpha]: idx is its position in    *)
(* psd_image.layers (the identity of the layer object), bbox its box in    *)
(* document coordinates, alpha the alpha value of its pixels.  A pixel is  *)
(* a record [layer, x, y, a]: the layer it was read from, its position in  *)
(* that layer's own buffer, and its alpha.  An image is a record           *)
(* [size, px] with px a function from canvas positions to pixels.          *)
(***************************************************************************)
EXTENDS Integers, Sequences, FiniteSets

VARIABLES
    pc,             \* position of the program
    psd_layers,     \* psd_image.layers of the document at hand
    layer_names,    \* the mood's list of layer names
    used_layers,    \* combine_layers: the layers selected, in paint order
    current_bbox,   \* get_bounding_size: the accumulated box
    bounding_size,  \* get_bounding_size: the (width, height) returned
    pastes,         \* combine_layers: the box argument of each paste, in order
    output_image,   \* combine_layers: the canvas
    exception,      \* the exception that ended the program, or "none"
    filenames,      \* run: the sorted base names, as ranks 1..n
    fs,             \* the files of each base name: state of its .psd and its .json
    base_name,      \* run: the base name the loop is at
    moods,          \* render_pngs: json_struct["moods"], mood rank -> names
    mood,           \* render_pngs: the mood the loop is at
    folders,        \* the output folders that exist
    saved,          \* the output files written: [base, mood, image]
    log,            \* the warnings logged, in order
    rendered,       \* history: the base names render_pngs was invoked for
    visited         \* history: the <<base name, mood>> iterations entered

vars == <<pc, psd_layers, layer_names, used_layers, current_bbox, bounding_size,
          pastes, output_image, exception, filenames, fs, base_name, moods, mood,
          folders, saved, log, rendered, visited>>

compositorVars == <<psd_layers, layer_names, used_layers, current_bbox,
                    bounding_size, pastes, output_image>>

driverVars == <<filenames, fs, base_name, moods, mood, folders, saved, log,
                rendered, visited>>

\* Bounds of the model.
MaxLayers == 2
MaxNames == 2
MaxDocs == 2
MaxMoods == 2

\* Sample coordinates: left of / above the origin, the origin, right of / below it.
Coords == {-1, 0, 1}

\* The same with room for a box that lies off the origin on the positive side.
WideCoords == {-1, 0, 1, 2}

\* Sample kinds of layer: the name, and the alpha of its pixels (255 is fully
\* opaque, 0 fully transparent).  Two kinds share a name.
LayerKinds == {[name |-> "body", alpha |-> 255],
               [name |-> "hat", alpha |-> 255],
               [name |-> "hat", alpha |-> 0]}
RequestedNames == {"body", "hat", "nope"}

Range(s) == {s[i] : i \in DOMAIN s}

Reverse(s) == [i \in 1..Len(s) |-> s[Len(s) + 1 - i]]

SeqsUpTo(S, n) == UNION {[1..k -> S] : k \in 0..n}

Perms(n) == {p \in [1..n -> 1..n] : \A i, j \in 1..n : p[i] = p[j] => i = j}

\* The sequences of up to n elements of S, no element twice.
DistinctSeqsUpTo(S, n) ==
    {s \in SeqsUpTo(S, n) : \A i, j \in DOMAIN s : s[i] = s[j] => i = j}

Permuted(s, p) == [i \in 1..Len(s) |-> s[p[i]]]

\* Boxes with x1 <= x2 and y1 <= y2.
Boxes == {b \in [x1 : Coords, y1 : Coords, x2 : Coords, y2 : Coords] :
            b.x1 <= b.x2 /\ b.y1 <= b.y2}

\* Boxes of layers that hold pixels: x1 < x2 and y1 < y2.
PixelBoxes(C) == {b \in [x1 : C, y1 : C, x2 : C, y2 : C] :
                    b.x1 < b.x2 /\ b.y1 < b.y2}

\* A sequence of layer records numbered by position, one per element of f.
Numbered(f) == [i \in 1..Len(f) |->
                  [idx |-> i, name |-> f[i].name, bbox |-> f[i].bbox,
                   alpha |-> f[i].alpha]]

----------------------------------------------------------------------------
(* get_bounding_size *)

\* Accumulate with the x2 comparison turned round: the least x2 is kept.
AccumulateFlipped(box, layer) ==
    [x1 |-> IF layer.bbox.x1 < box.x1 THEN layer.bbox.x1 ELSE box.x1,
     y1 |-> IF layer.bbox.y1 < box.y1 THEN layer.bbox.y1 ELSE box.y1,
     x2 |-> IF layer.bbox.x2 < box.x2 THEN layer.bbox.x2 ELSE box.x2,
     y2 |-> IF layer.bbox.y2 > box.y2 THEN layer.bbox.y2 ELSE box.y2]

\* Accumulate with the x2 comparison dropped: the last layer's x2 is kept.
AccumulateLast(box, layer) ==
    [x1 |-> IF layer.bbox.x1 < box.x1 THEN layer.bbox.x1 ELSE box.x1,
     y1 |-> IF layer.bbox.y1 < box.y1 THEN layer.bbox.y1 ELSE box.y1,
     x2 |-> layer.bbox.x2,
     y2 |-> IF layer.bbox.y2 > box.y2 THEN layer.bbox.y2 ELSE box.y2]

\* One iteration of the loop over the layers: the four comparisons.
Accumulate(box, layer) ==
    [x1 |-> IF layer.bbox.x1 < box.x1 THEN layer.bbox.x1 ELSE box.x1,
     y1 |-> IF layer.bbox.y1 < box.y1 THEN layer.bbox.y1 ELSE box.y1,
     x2 |-> IF layer.bbox.x2 > box.x2 THEN layer.bbox.x2 ELSE box.x2,
     y2 |-> IF layer.bbox.y2 > box.y2 THEN layer.bbox.y2 ELSE box.y2]

RECURSIVE AccumulateFrom(_, _, _)
AccumulateFrom(box, layers, i) ==
    IF i > Len(layers) THEN box
    ELSE AccumulateFrom(Accumulate(box, layers[i]), layers, i + 1)

\* current_bbox after the loop: seeded with the zero box.
GetBoundingBox(layers) ==
    AccumulateFrom([x1 |-> 0, y1 |-> 0, x2 |-> 0, y2 |-> 0], layers, 1)

\* The value returned: (x2 - x1, y2 - y1) of current_bbox.
GetBoundingSize(layers) ==
    LET box == GetBoundingBox(layers)
    IN  <<box.x2 - box.x1, box.y2 - box.y1>>

----------------------------------------------------------------------------
(* Specification of the reducer alone: get_bounding_size applied to any    *)
(* sequence of layers, the empty one included.                             *)

NoImage == [size |-> <<0, 0>>, px |-> <<>>]

IdleDriver ==
    /\ filenames = <<>>
    /\ fs = <<>>
    /\ base_name = 0
    /\ moods = <<>>
    /\ mood = 0
    /\ folders = {}
    /\ saved = {}
    /\ log = <<>>
    /\ rendered = {}
    /\ visited = {}

InitReduce ==
    /\ pc = "get_bounding_size"
    /\ \E f \in SeqsUpTo([name : {"body"}, bbox : Boxes, alpha : {255}], MaxLayers) :
           used_layers = Numbered(f)
    /\ psd_layers = <<>>
    /\ layer_names = <<>>
    /\ current_bbox = [x1 |-> 0, y1 |-> 0, x2 |-> 0, y2 |-> 0]
    /\ bounding_size = <<0, 0>>
    /\ pastes = <<>>
    /\ output_image = NoImage
    /\ exception = "none"
    /\ IdleDriver

CallGetBoundingSize ==
    /\ pc = "get_bounding_size"
    /\ current_bbox' = GetBoundingBox(used_layers)
    /\ bounding_size' = GetBoundingSize(used_layers)
    /\ pc' = "returned"
    /\ UNCHANGED <<psd_layers, layer_names, used_layers, pastes, output_image,
                   exception>>
    /\ UNCHANGED driverVars

NextReduce == CallGetBoundingSize

SpecReduce == InitReduce /\ [][NextReduce]_vars

----------------------------------------------------------------------------
(* combine_layers *)

\* layer.as_PIL(): the layer's own pixel buffer, of the size of its box.
AsPIL(layer) ==
    LET w == layer.bbox.x2 - layer.bbox.x1
        h == layer.bbox.y2 - layer.bbox.y1
    IN  [size |-> <<w, h>>,
         px |-> [p \in (0..(w - 1)) \X (0..(h - 1)) |->
                   [layer |-> layer.idx, x |-> p[1], y |-> p[2], a |-> layer.alpha]]]

BlankPixel == [layer |-> 0, x |-> 0, y |-> 0, a |-> 0]

\* Image.new(mode, size): a canvas of zero pixels.
ImageNew(size) ==
    [size |-> size,
     px |-> [p \in (0..(size[1] - 1)) \X (0..(size[2] - 1)) |-> BlankPixel]]

\* The box argument combine_layers gives to paste for a layer.
PasteBox(layer) == <<layer.bbox.x1, layer.bbox.y1>>

\* Paste that paints only where the canvas is still empty: the earlier layer wins.
PasteBehind(image, im, box) ==
    [image EXCEPT !.px =
        [p \in DOMAIN image.px |->
            LET q == <<p[1] - box[1], p[2] - box[2]>>
            IN  IF q \in DOMAIN im.px /\ im.px[q].a = 255 /\ image.px[p].a = 0
                THEN im.px[q]
                ELSE image.px[p]]]

\* image.paste(im, box, mask=im): where im, placed with its upper left corner at
\* box, covers the canvas and its alpha is 255 the canvas takes im's pixel; where
\* its alpha is 0 the canvas keeps its own.  What falls outside the canvas is cut.
Paste(image, im, box) ==
    [image EXCEPT !.px =
        [p \in DOMAIN image.px |->
            LET q == <<p[1] - box[1], p[2] - box[2]>>
            IN  IF q \in DOMAIN im.px /\ im.px[q].a = 255
                THEN im.px[q]
                ELSE image.px[p]]]

\* The loop over range(0, len(layer_images)).
RECURSIVE PasteFrom(_, _, _)
PasteFrom(image, layers, i) ==
    IF i > Len(layers) THEN image
    ELSE PasteFrom(Paste(image, AsPIL(layers[i]), PasteBox(layers[i])), layers, i + 1)

\* UsedLayers without the reverse().
UsedLayersUnreversed(layers, names) ==
    LET Named(l) == l.name \in Range(names)
    IN  SelectSeq(layers, Named)

\* [l for l in psd_image.layers if l.name in layer_names], then reverse().
UsedLayers(layers, names) ==
    LET Named(l) == l.name \in Range(names)
    IN  Reverse(SelectSeq(layers, Named))

\* combine_layers as a whole: what it computes, and whether it raises.
\* layer_images[0] raises IndexError when no layer was selected, after
\* get_bounding_size has returned.
CombineLayers(layers, names) ==
    LET used == UsedLayers(layers, names)
        size == GetBoundingSize(used)
    IN  [used_layers |-> used,
         current_bbox |-> GetBoundingBox(used),
         bounding_size |-> size,
         raised |-> IF used = <<>> THEN "IndexError" ELSE "none",
         pastes |-> IF used = <<>> THEN <<>>
                    ELSE [i \in 1..Len(used) |-> PasteBox(used[i])],
         output_image |-> IF used = <<>> THEN NoImage
                          ELSE PasteFrom(ImageNew(size), used, 1)]

----------------------------------------------------------------------------
(* Specification of the compositor alone: combine_layers applied to any    *)
(* document of up to MaxLayers layers and any list of up to MaxNames       *)
(* names, no name twice.  The layers hold pixels (x1 < x2, y1 < y2) and    *)
(* are of the kinds LayerKinds.                                            *)

InitCombineOver(C) ==
    /\ pc = "combine_layers"
    /\ \E f \in SeqsUpTo(LayerKinds \X PixelBoxes(C), MaxLayers) :
           psd_layers = Numbered([i \in 1..Len(f) |->
                                    [name |-> f[i][1].name, bbox |-> f[i][2],
                                     alpha |-> f[i][1].alpha]])
    /\ layer_names = <<>>
    /\ used_layers = <<>>
    /\ current_bbox = [x1 |-> 0, y1 |-> 0, x2 |-> 0, y2 |-> 0]
    /\ bounding_size = <<0, 0>>
    /\ pastes = <<>>
    /\ output_image = NoImage
    /\ exception = "none"
    /\ IdleDriver

InitCombine == InitCombineOver(Coords)

InitCombineWide == InitCombineOver(WideCoords)

\* A call of combine_layers on the document, with any list of names.
CallCombineLayers ==
    /\ pc = "combine_layers"
    /\ \E names \in DistinctSeqsUpTo(RequestedNames, MaxNames) :
           LET r == CombineLayers(psd_layers, names)
           IN  /\ layer_names' = names
               /\ used_layers' = r.used_layers
               /\ current_bbox' = r.current_bbox
               /\ bounding_size' = r.bounding_size
               /\ pastes' = r.pastes
               /\ output_image' = r.output_image
               /\ exception' = r.raised
               /\ pc' = IF r.raised = "none" THEN "returned" ELSE "raised"
    /\ UNCHANGED psd_layers
    /\ UNCHANGED driverVars

NextCombine == CallCombineLayers

SpecCombine == InitCombine /\ [][NextCombine]_vars

SpecCombineWide == InitCombineWide /\ [][NextCombine]_vars

----------------------------------------------------------------------------
(* run and render_pngs *)

\* Sample documents: what PSDImage.load gives for a decodable .psd.
Body == [name |-> "body", bbox |-> [x1 |-> 0, y1 |-> 0, x2 |-> 1, y2 |-> 1],
         alpha |-> 255]

Hat == [name |-> "hat", bbox |-> [x1 |-> 0, y1 |-> -1, x2 |-> 1, y2 |-> 1],
        alpha |-> 255]

Documents == {Numbered(<<Body, Hat>>), Numbered(<<Hat>>)}

\* Sample lists of layer names of a mood.
NameLists == {<<>>, <<"nope">>, <<"body">>, <<"hat", "body">>, <<"nope", "hat">>}

\* json_struct["moods"], its moods numbered in the sorted order of their names.
MoodConfigs == SeqsUpTo(NameLists, MaxMoods)

\* The state of a base name's files: the .psd is missing, not decodable, or a
\* document; the .json is not JSON, lacks "moods", or holds the moods.
PsdFiles == {[state |-> "missing", layers |-> <<>>],
             [state |-> "corrupt", layers |-> <<>>]}
            \cup {[state |-> "ok", layers |-> d] : d \in Documents}

JsonFiles == {[state |-> "malformed", moods |-> <<>>],
              [state |-> "no_moods", moods |-> <<>>]}
             \cup {[state |-> "ok", moods |-> m] : m \in MoodConfigs}

\* The "No corresponding PSD found" warnings of run, one per base name without .psd.
RECURSIVE MissingPsdWarnings(_, _)
MissingPsdWarnings(files, i) ==
    IF i > Len(files) THEN <<>>
    ELSE (IF files[i].psd.state = "missing"
          THEN <<[warning |-> "no_psd", base |-> i, mood |-> 0]>>
          ELSE <<>>) \o MissingPsdWarnings(files, i + 1)

InitRun ==
    /\ pc = "run"
    /\ \E n \in 0..MaxDocs :
           /\ filenames = [i \in 1..n |-> i]
           /\ fs \in [1..n -> [psd : PsdFiles, json : JsonFiles]]
    /\ base_name = 0
    /\ moods = <<>>
    /\ mood = 0
    /\ folders = {}
    /\ saved = {}
    /\ log = <<>>
    /\ rendered = {}
    /\ visited = {}
    /\ psd_layers = <<>>
    /\ layer_names = <<>>
    /\ used_layers = <<>>
    /\ current_bbox = [x1 |-> 0, y1 |-> 0, x2 |-> 0, y2 |-> 0]
    /\ bounding_size = <<0, 0>>
    /\ pastes = <<>>
    /\ output_image = NoImage
    /\ exception = "none"

\* run, up to the loop over sorted(filenames).
Run ==
    /\ pc = "run"
    /\ \/ /\ Len(filenames) < 1
          /\ log' = Append(log, [warning |-> "no_json", base |-> 0, mood |-> 0])
          /\ pc' = "done"
          /\ UNCHANGED base_name
       \/ /\ Len(filenames) >= 1
          /\ log' = log \o MissingPsdWarnings(fs, 1)
          /\ base_name' = 1
          /\ pc' = "for_base_name"
    /\ UNCHANGED <<filenames, fs, moods, mood, folders, saved, rendered, visited,
                   exception>>
    /\ UNCHANGED compositorVars

\* render_pngs, up to the loop over the sorted moods.  Nothing catches what
\* PSDImage.load, json.loads or json_struct["moods"] raise.
RenderPngs ==
    /\ pc = "for_base_name"
    /\ base_name <= Len(filenames)
    /\ rendered' = rendered \cup {base_name}
    /\ \/ /\ fs[base_name].psd.state = "missing"
          /\ base_name' = base_name + 1
          /\ UNCHANGED <<pc, exception, psd_layers, moods, mood>>
       \/ /\ fs[base_name].psd.state = "corrupt"
          /\ exception' = "DecodeError"
          /\ pc' = "raised"
          /\ UNCHANGED <<base_name, psd_layers, moods, mood>>
       \/ /\ fs[base_name].psd.state = "ok"
          /\ fs[base_name].json.state = "malformed"
          /\ exception' = "ValueError"
          /\ pc' = "raised"
          /\ psd_layers' = fs[base_name].psd.layers
          /\ UNCHANGED <<base_name, moods, mood>>
       \/ /\ fs[base_name].psd.state = "ok"
          /\ fs[base_name].json.state = "no_moods"
          /\ exception' = "KeyError"
          /\ pc' = "raised"
          /\ psd_layers' = fs[base_name].psd.layers
          /\ UNCHANGED <<base_name, moods, mood>>
       \/ /\ fs[base_name].psd.state = "ok"
          /\ fs[base_name].json.state = "ok"
          /\ psd_layers' = fs[base_name].psd.layers
          /\ moods' = fs[base_name].json.moods
          /\ mood' = 1
          /\ pc' = "for_mood"
          /\ UNCHANGED <<base_name, exception>>
    /\ UNCHANGED <<filenames, fs, folders, saved, log, visited>>
    /\ UNCHANGED <<layer_names, used_layers, current_bbox, bounding_size, pastes,
                   output_image>>

\* One iteration of the loop over the moods: the output folder, the check for
\* an empty list of names, combine_layers and the save.  Nothing catches what
\* combine_layers raises.
RenderMood ==
    /\ pc = "for_mood"
    /\ mood <= Len(moods)
    /\ visited' = visited \cup {<<base_name, mood>>}
    /\ folders' = folders \cup {base_name}
    /\ layer_names' = moods[mood]
    /\ \/ /\ moods[mood] = <<>>
          /\ log' = Append(log, [warning |-> "zero_layers", base |-> base_name,
                                 mood |-> mood])
          /\ mood' = mood + 1
          /\ UNCHANGED <<pc, exception, saved, used_layers, current_bbox,
                         bounding_size, pastes, output_image>>
       \/ /\ moods[mood] # <<>>
          /\ LET r == CombineLayers(psd_layers, moods[mood])
             IN  /\ used_layers' = r.used_layers
                 /\ current_bbox' = r.current_bbox
                 /\ bounding_size' = r.bounding_size
                 /\ pastes' = r.pastes
                 /\ output_image' = r.output_image
                 /\ \/ /\ r.raised # "none"
                       /\ exception' = r.raised
                       /\ pc' = "raised"
                       /\ UNCHANGED <<saved, mood>>
                    \/ /\ r.raised = "none"
                       /\ saved' = saved \cup {[base |-> base_name, mood |-> mood,
                                                image |-> r.output_image]}
                       /\ mood' = mood + 1
                       /\ UNCHANGED <<pc, exception>>
          /\ UNCHANGED log
    /\ UNCHANGED <<filenames, fs, base_name, moods, rendered, psd_layers>>

\* render_pngs returns after the last mood: run goes on with the next base name.
RenderReturn ==
    /\ pc = "for_mood"
    /\ mood > Len(moods)
    /\ base_name' = base_name + 1
    /\ pc' = "for_base_name"
    /\ UNCHANGED <<filenames, fs, moods, mood, folders, saved, log, rendered,
                   visited, exception>>
    /\ UNCHANGED compositorVars

\* run returns after the last base name.
RunReturn ==
    /\ pc = "for_base_name"
    /\ base_name > Len(filenames)
    /\ pc' = "done"
    /\ UNCHANGED <<filenames, fs, base_name, moods, mood, folders, saved, log,
                   rendered, visited, exception>>
    /\ UNCHANGED compositorVars

NextRun == Run \/ RenderPngs \/ RenderMood \/ RenderReturn \/ RunReturn

SpecRun == InitRun /\ [][NextRun]_vars

----------------------------------------------------------------------------
(* Claims about get_bounding_size, under SpecReduce *)

Contains(box, inner) ==
    /\ box.x1 <= inner.x1
    /\ box.y1 <= inner.y1
    /\ box.x2 >= inner.x2
    /\ box.y2 >= inner.y2

\* C1: for a non-empty sequence of layer boxes, the size returned is that of
\* the accumulated box, its width and height are not negative, and the
\* accumulated box contains the origin and every input box.
C1_BoundingSizeContains ==
    (pc = "returned" /\ used_layers # <<>>) =>
        /\ bounding_size = <<current_bbox.x2 - current_bbox.x1,
                             current_bbox.y2 - current_bbox.y1>>
        /\ bounding_size[1] >= 0
        /\ bounding_size[2] >= 0
        /\ Contains(current_bbox, [x1 |-> 0, y1 |-> 0, x2 |-> 0, y2 |-> 0])
        /\ \A i \in 1..Len(used_layers) : Contains(current_bbox, used_layers[i].bbox)

C1_Witness ==
    /\ pc = "returned"
    /\ Len(used_layers) = 2
    /\ used_layers[1].bbox.x1 < 0
    /\ used_layers[1].bbox.x2 < used_layers[2].bbox.x2
    /\ used_layers[2].bbox.x2 > 0
    /\ used_layers[2].bbox.y1 < 0

\* C7: the size returned for a sequence of layers is the size get_bounding_size
\* gives for every permutation of that sequence.
C7_OrderIndependent ==
    pc = "returned" =>
        \A p \in Perms(Len(used_layers)) :
            GetBoundingSize(Permuted(used_layers, p)) = bounding_size

C7_Witness ==
    /\ pc = "returned"
    /\ Len(used_layers) = 2
    /\ used_layers[1].bbox.x2 > used_layers[2].bbox.x2
    /\ used_layers[1].bbox.x2 > 0
    /\ used_layers[2].bbox.y1 < used_layers[1].bbox.y1
    /\ used_layers[2].bbox.y1 < 0

\* C8: get_bounding_size does not return for an empty sequence of layers: it
\* ends with an error, and the size (0, 0) is never its answer to empty input.
C8_EmptyInputRejected ==
    (used_layers = <<>> /\ pc # "get_bounding_size") =>
        /\ pc = "raised"
        /\ exception # "none"

----------------------------------------------------------------------------
(* Claims about combine_layers, under SpecCombine and SpecCombineWide *)

\* Whether canvas position p lies in the rectangle the i-th paste covers.
InPasted(p, i) == <<p[1] - pastes[i][1], p[2] - pastes[i][2]>>
                      \in DOMAIN AsPIL(used_layers[i]).px

\* The pixel of the i-th painted layer that the i-th paste puts at canvas position p.
PastedPixel(p, i) ==
    AsPIL(used_layers[i]).px[<<p[1] - pastes[i][1], p[2] - pastes[i][2]>>]

Swapped(s, i, j) ==
    [k \in 1..Len(s) |-> IF k = i THEN s[j] ELSE IF k = j THEN s[i] ELSE s[k]]

\* C2: every layer is pasted at its own (x1, y1) minus the (x1, y1) of the box
\* the reducer accumulated.
C2_PasteOffsetRelativeToOrigin ==
    pc = "returned" =>
        \A i \in 1..Len(used_layers) :
            pastes[i] = <<used_layers[i].bbox.x1 - current_bbox.x1,
                          used_layers[i].bbox.y1 - current_bbox.y1>>

\* C3: of two opaque layers A, painted earlier, and B, painted later, every
\* canvas pixel that both pastes cover and no opaque layer painted after B
\* covers holds B's pixel; with A and B exchanged in the sequence it holds A's.
C3_LaterLayerWins ==
    pc = "returned" =>
        \A i, j \in 1..Len(used_layers) :
            (i < j /\ used_layers[i].alpha = 255 /\ used_layers[j].alpha = 255) =>
                LET exchanged == PasteFrom(ImageNew(bounding_size),
                                           Swapped(used_layers, i, j), 1)
                IN  \A p \in DOMAIN output_image.px :
                        (/\ InPasted(p, i)
                         /\ InPasted(p, j)
                         /\ \A k \in (j + 1)..Len(used_layers) :
                                ~(InPasted(p, k) /\ used_layers[k].alpha = 255)) =>
                            /\ output_image.px[p] = PastedPixel(p, j)
                            /\ exchanged.px[p] = PastedPixel(p, i)

C3_Witness ==
    /\ pc = "returned"
    /\ Len(used_layers) = 2
    /\ used_layers[1].alpha = 255
    /\ used_layers[2].alpha = 255
    /\ used_layers[1].bbox # used_layers[2].bbox
    /\ \E p \in DOMAIN output_image.px : InPasted(p, 1) /\ InPasted(p, 2)

\* C6: for a single selected layer the canvas has exactly that layer's size and
\* holds that layer's pixel buffer: each opaque pixel of the layer at its own
\* position, and nothing where the layer is transparent.
C6_SingleLayerIsCopy ==
    (pc = "returned" /\ Len(used_layers) = 1) =>
        LET im == AsPIL(used_layers[1])
        IN  /\ output_image.size = im.size
            /\ DOMAIN output_image.px = DOMAIN im.px
            /\ \A p \in DOMAIN im.px :
                   IF im.px[p].a = 255
                   THEN output_image.px[p] = im.px[p]
                   ELSE output_image.px[p].a = 0

\* C9: the layers painted are the document's layers whose name is requested,
\* each once, in the reverse of document order; the order of the requested
\* names changes nothing; and a requested name that matches no layer raises no
\* error when another name matches.
C9_VariantResolution ==
    pc \in {"returned", "raised"} =>
        /\ \A i \in 1..Len(used_layers) :
               /\ used_layers[i].idx \in 1..Len(psd_layers)
               /\ used_layers[i] = psd_layers[used_layers[i].idx]
               /\ used_layers[i].name \in Range(layer_names)
        /\ \A i, j \in 1..Len(used_layers) :
               i < j => used_layers[i].idx > used_layers[j].idx
        /\ \A k \in 1..Len(psd_layers) :
               psd_layers[k].name \in Range(layer_names) =>
                   \E i \in 1..Len(used_layers) : used_layers[i].idx = k
        /\ \A p \in Perms(Len(layer_names)) :
               UsedLayers(psd_layers, Permuted(layer_names, p)) = used_layers
        /\ (\E k \in 1..Len(psd_layers) : psd_layers[k].name \in Range(layer_names)) =>
               (pc = "returned" /\ exception = "none")

C9_Witness ==
    /\ pc = "returned"
    /\ Len(psd_layers) = 2
    /\ Len(used_layers) = 2
    /\ Len(layer_names) = 2
    /\ \E n \in Range(layer_names) : \A k \in 1..Len(psd_layers) : psd_layers[k].name # n

\* C10: every paste lies inside the canvas: its position is not negative and
\* the layer's buffer placed there ends within the canvas width and height.
C10_PastesInsideCanvas ==
    pc = "returned" =>
        \A i \in 1..Len(used_layers) :
            LET im == AsPIL(used_layers[i])
            IN  /\ 0 <= pastes[i][1]
                /\ 0 <= pastes[i][2]
                /\ pastes[i][1] + im.size[1] <= output_image.size[1]
                /\ pastes[i][2] + im.size[2] <= output_image.size[2]

----------------------------------------------------------------------------
(* Claims about run and render_pngs, under SpecRun *)

Stopped == pc \in {"done", "raised"}

\* Whether mood m of base name b names no layer of b's document.
MatchesNothing(b, m) ==
    /\ fs[b].psd.state = "ok"
    /\ fs[b].json.state = "ok"
    /\ m \in 1..Len(fs[b].json.moods)
    /\ UsedLayers(fs[b].psd.layers, fs[b].json.moods[m]) = <<>>

\* C4: a mood whose names match no layer of the document writes no output
\* file, is skipped with a warning, and the moods after it are still processed.
C4_EmptyVariantSkipped ==
    \A b \in 1..Len(filenames) :
        \A m \in 1..MaxMoods :
            (<<b, m>> \in visited /\ MatchesNothing(b, m)) =>
                /\ \A f \in saved : ~(f.base = b /\ f.mood = m)
                /\ \E i \in 1..Len(log) :
                       log[i] = [warning |-> "zero_layers", base |-> b, mood |-> m]
                /\ Stopped => \A n \in (m + 1)..Len(fs[b].json.moods) : <<b, n>> \in visited

\* C5: when the run has ended, render_pngs was invoked for every base name of
\* the sorted list, and every mood of every document that could be loaded was
\* processed, whatever failed for another document or another mood.
C5_BatchContinues ==
    Stopped =>
        /\ \A b \in 1..Len(filenames) : b \in rendered
        /\ \A b \in 1..Len(filenames) :
               (fs[b].psd.state = "ok" /\ fs[b].json.state = "ok") =>
                   \A m \in 1..Len(fs[b].json.moods) : <<b, m>> \in visited

====
